---- MODULE Spec2Model ----
(***************************************************************************)
(* State machine of the staking-pool contract (src/staking-pool/src/lib.rs) *)
(*                                                                         *)
(* Every public method of the contract is one action.  A call that panics  *)
(* (a failed assert!, an unwrap() of None, an index out of range, a        *)
(* checked-arithmetic underflow) is rolled back by the host: the action    *)
(* then leaves the contract state as it was and only notes in the history  *)
(* variable "last" that a call was rejected.  For a call that commits,     *)
(* "last" holds the call, the reward it settled and the requests it sent   *)
(* to the token ledgers.                                                   *)
(*                                                                         *)
(* Timestamps are measured in whole days: block_timestamp_ms is always a   *)
(* multiple of the source's ONE_DAY (86_400_000 ms), so ONE_DAY is the unit *)
(* of time here and x * ONE_DAY / (k * ONE_DAY) = x / k exactly.           *)
(*                                                                         *)
(* u128 / u64 arithmetic is checked: a subtraction below zero panics.      *)
(* Fields of PoolInfo that no method reads (pool_name, the cached token    *)
(* metadata) are left out.  A HashMap entry that is absent and one that    *)
(* holds the Default value behave alike in every method for is_pool_user,  *)
(* user_info and the two aggregates, which are therefore total maps here;  *)
(* is_whitelisted is only ever read with get(..).unwrap(), so there the    *)
(* presence of a key is kept.                                              *)
(***************************************************************************)
EXTENDS Integers, Sequences, FiniteSets, TLC

\* ---------------------------------------------------------------- constants
\* one day, the unit of time (86_400_000 ms in the source)
ONE_DAY == 1
QUARTER_DAY == 90 * ONE_DAY

\* ------------------------------------------------------------------- bounds
\* pools create_pool may add, and calls that may commit (clock steps included)
MaxPools == 1
MaxSteps == 5
\* pools create_pool may add in the administration runs
MaxWidePools == 2

\* the inputs the calls are drawn from

TickSteps == {QUARTER_DAY, 2 * QUARTER_DAY}
Owner == "owner"
Accounts == {"owner", "alice"}
Tokens == {"usdt", "other"}
Amounts == {250, 500}
Pids == 0 .. (MaxPools - 1)
WidePids == 0 .. (MaxWidePools - 1)
\* the keys of the per-pool maps
AllPids == Pids \cup WidePids
Indexes == {0, 1}

VARIABLES pool_info, is_pool_user, is_whitelisted, user_info,
          total_user_amount_staked, total_user_amount_borrowed, now, last, steps

state == <<pool_info, is_pool_user, is_whitelisted, user_info,
           total_user_amount_staked, total_user_amount_borrowed>>
vars == <<pool_info, is_pool_user, is_whitelisted, user_info,
          total_user_amount_staked, total_user_amount_borrowed, now, last, steps>>

\* ---------------------------------------------------------------- data model
\* PoolInfo: type, apy, paused, quarterly_payout, unique_users, token,
\* funds (balance, loaned_balance) and deposit_limiters (duration, start_time,
\* end_time, limit_per_user, capacity, max_utilisation)
PoolInfo(ty, apy, paused, quarterly, users, token, bal, loaned, dur, st, en, lim, cap, mu) ==
    [pool_type |-> ty, apy |-> apy, paused |-> paused, quarterly_payout |-> quarterly,
     unique_users |-> users,
     token_info |-> [token |-> token],
     funds |-> [balance |-> bal, loaned_balance |-> loaned],
     deposit_limiters |-> [duration |-> dur, start_time |-> st, end_time |-> en,
                           limit_per_user |-> lim, capacity |-> cap,
                           max_utilisation |-> mu]]

\* UserInfo, created with paid_out = 0; id is a ghost field that tells the
\* positions of one list apart (cleanup moves the last position elsewhere)
UserInfo(ty, amount, time, id) ==
    [transaction_type |-> ty, amount |-> amount, time |-> time, paid_out |-> 0, id |-> id]

\* The pool descriptions callers pass to create_pool and edit_pool.  The funds
\* and unique_users they carry are arbitrary: the contract overwrites them.
StakingInput == PoolInfo("Staking", 10, FALSE, TRUE, 3, "usdt", 7, 9, 90, 0, 90, 500, 750, 80)
LoanInput == PoolInfo("Loan", 10, FALSE, FALSE, 0, "usdt", 0, 0, 0, 0, 0, 500, 750, 80)
\* a Staking description whose deposit window is empty, on another token
ClosedInput == PoolInfo("Staking", 10, FALSE, TRUE, 3, "other", 7, 9, 90, 90, 90, 500, 750, 80)
\* a Loan description that allows no utilisation at all
IdleLoanInput == PoolInfo("Loan", 10, FALSE, FALSE, 0, "usdt", 0, 0, 0, 0, 0, 500, 750, 0)
PoolInputs == {StakingInput, LoanInput}
\* the descriptions of the administration runs: the odd ones too
WideInputs == PoolInputs \cup {ClosedInput, IdleLoanInput}
PoolTypes == {"Staking", "Loan"}

\* The record of the most recent call: what was called, whether it committed
\* (ok) and what it asked the token ledgers to do (calls).
Call(op, ok, signer, pid, index, amount) ==
    [op |-> op, ok |-> ok, signer |-> signer, pid |-> pid, index |-> index,
     amount |-> amount, user |-> signer, flag |-> FALSE, path |-> "none",
     token |-> "none",
     repay_amount |-> 0, reward |-> 0, claimable |-> 0, paid_out |-> 0,
     result |-> 0, calls |-> <<>>]

\* a request to a token ledger: ft_mint / ft_burn on the collateral token,
\* ft_transfer on the pool's token; "what" tells a reward from principal
\* and from a recovered stray amount
ExtCall(fn, what, account, amount) ==
    [fn |-> fn, what |-> what, account |-> account, amount |-> amount]

\* ------------------------------------------------------------------ helpers
HasPool(pid) == pid >= 0 /\ pid < Len(pool_info)
PoolAt(pid) == pool_info[pid + 1]
Positions(pid, account) == user_info[pid][account]
HasPosition(pid, account, index) == index >= 0 /\ index < Len(Positions(pid, account))
PositionAt(pid, account, index) == Positions(pid, account)[index + 1]

\* ghost identity of a position inside its list: the smallest number no
\* position of the list carries
FreshId(list) ==
    CHOOSE i \in 0 .. Len(list) : /\ \A k \in 1 .. Len(list) : list[k].id # i
                                  /\ \A j \in 0 .. (i - 1) : \E k \in 1 .. Len(list) : list[k].id = j

is_owner(signer) == signer = Owner

calculate_percentage(value, of) ==
    IF of = 0 THEN 0 ELSE (value * 100) \div of

get_pool_utilisation_unclamped(pid) ==
    LET pool == PoolAt(pid)
    IN  IF pool.funds.balance = 0 THEN 0
        ELSE calculate_percentage(pool.funds.loaned_balance, pool.funds.balance)

get_pool_utilisation(pid) ==
    LET pool == PoolAt(pid)
        utilisation == calculate_percentage(pool.funds.loaned_balance, pool.funds.balance)
    IN  IF pool.funds.balance = 0 THEN 0
        ELSE IF utilisation > 100 THEN 100 ELSE utilisation

\* ----------------------------------------------------------------- new()
Init ==
    /\ pool_info = <<>>
    /\ is_pool_user = [p \in AllPids |-> [a \in Accounts |-> FALSE]]
    /\ is_whitelisted = [p \in {} |-> [a \in {} |-> FALSE]]
    /\ user_info = [p \in AllPids |-> [a \in Accounts |-> <<>>]]
    /\ total_user_amount_staked = [p \in AllPids |-> [a \in Accounts |-> 0]]
    /\ total_user_amount_borrowed = [p \in AllPids |-> [a \in Accounts |-> 0]]
    /\ now = 0
    /\ last = Call("new", TRUE, Owner, 0, 0, 0)
    /\ steps = 0

\* a call that commits is one more step of the explored history
Commit ==
    /\ steps < MaxSteps
    /\ steps' = steps + 1

\* a call that panics: the host discards its writes and its requests, and
\* the history only notes that a call was rejected
Abort(call) ==
    /\ last' = Call("rejected", FALSE, Owner, 0, 0, 0)
    /\ UNCHANGED <<state, now, steps>>

\* ------------------------------------------------------------------- admin
set_pool_paused(signer, pid, flag) ==
    LET call == [Call("set_pool_paused", is_owner(signer) /\ HasPool(pid), signer, pid, 0, 0)
                    EXCEPT !.flag = flag]
    IN  IF call.ok
        THEN /\ pool_info' = [pool_info EXCEPT ![pid + 1].paused = flag]
             /\ last' = call
             /\ UNCHANGED <<is_pool_user, is_whitelisted, user_info,
                            total_user_amount_staked, total_user_amount_borrowed, now>>
             /\ Commit
        ELSE Abort(call)

whitelist_ok(signer, pid, user) ==
    /\ is_owner(signer)
    /\ HasPool(pid)
    /\ PoolAt(pid).pool_type = "Loan"
    /\ pid \in DOMAIN is_whitelisted
    /\ user \in DOMAIN is_whitelisted[pid]

whitelist(signer, pid, user, status) ==
    LET call == [Call("whitelist", whitelist_ok(signer, pid, user), signer, pid, 0, 0)
                    EXCEPT !.user = user, !.flag = status]
    IN  IF call.ok
        THEN /\ is_whitelisted' = [is_whitelisted EXCEPT ![pid][user] = status]
             /\ last' = call
             /\ UNCHANGED <<pool_info, is_pool_user, user_info,
                            total_user_amount_staked, total_user_amount_borrowed, now>>
             /\ Commit
        ELSE Abort(call)

create_pool_ok(signer, input, pool_type) ==
    /\ is_owner(signer)
    /\ (pool_type # "Loan" =>
            input.deposit_limiters.start_time < input.deposit_limiters.end_time)

new_pool_keeps_loans(input) ==
    [input EXCEPT !.funds.balance = 0, !.unique_users = 0]

\* the pool create_pool stores: the caller's description with its live
\* counters cleared
new_pool(input) ==
    [input EXCEPT !.funds.balance = 0, !.funds.loaned_balance = 0, !.unique_users = 0]

create_pool(signer, input, pool_type) ==
    LET call == Call("create_pool", create_pool_ok(signer, input, pool_type), signer,
                     Len(pool_info), 0, 0)
        t_pool_info == new_pool(input)
    IN  IF call.ok
        THEN /\ pool_info' = Append(pool_info, t_pool_info)
             /\ last' = call
             /\ UNCHANGED <<is_pool_user, is_whitelisted, user_info,
                            total_user_amount_staked, total_user_amount_borrowed, now>>
             /\ Commit
        ELSE Abort(call)

edited_pool_takes_token(pool, input) ==
    [input EXCEPT !.funds.balance = pool.funds.balance,
                  !.funds.loaned_balance = pool.funds.loaned_balance,
                  !.unique_users = pool.unique_users]

\* the pool edit_pool stores: the caller's description with the live
\* counters and the token of the pool it replaces
edited_pool(pool, input) ==
    [input EXCEPT !.funds.balance = pool.funds.balance,
                  !.funds.loaned_balance = pool.funds.loaned_balance,
                  !.unique_users = pool.unique_users,
                  !.token_info.token = pool.token_info.token]

edit_pool(signer, pid, input) ==
    LET call == Call("edit_pool", is_owner(signer) /\ HasPool(pid), signer, pid, 0, 0)
    IN  IF call.ok
        THEN LET pool == PoolAt(pid)
                 t_new_pool_info == edited_pool(pool, input)
             IN  /\ pool_info' = [pool_info EXCEPT ![pid + 1] = t_new_pool_info]
                 /\ last' = call
                 /\ UNCHANGED <<is_pool_user, is_whitelisted, user_info,
                                total_user_amount_staked, total_user_amount_borrowed, now>>
                 /\ Commit
        ELSE Abort(call)

\* recover_token: a transfer of the token's amount to the contract's own
\* account, which is the owner; the contract state is not touched
recover_token(signer, token, amount) ==
    LET call == [Call("recover_token", is_owner(signer), signer, 0, 0, amount)
                    EXCEPT !.token = token]
    IN  IF call.ok
        THEN /\ last' = [call EXCEPT !.calls = <<ExtCall("ft_transfer", "stray", Owner, amount)>>]
             /\ UNCHANGED <<state, now>>
             /\ Commit
        ELSE Abort(call)

\* ------------------------------------------------- private and view methods
calculate_interest_ok(user, pid, index, amount) ==
    /\ HasPool(pid)
    /\ HasPosition(pid, user, index)
    /\ amount <= PositionAt(pid, user, index).amount

calculate_interest_from_deposit(user, pid, index, amount) ==
    LET pool == PoolAt(pid)
        transaction == PositionAt(pid, user, index)
        utilisation == IF pool.pool_type = "Loan" THEN get_pool_utilisation(pid) ELSE 100
    IN  IF pool.pool_type = "Staking" /\ now < pool.deposit_limiters.end_time
        THEN 0
        ELSE (amount * pool.apy * utilisation * (now - transaction.time))
                 \div (100 * 100 * 365 * ONE_DAY)

calculate_interest(user, pid, index, amount) ==
    LET pool == PoolAt(pid)
        transaction == PositionAt(pid, user, index)
        utilisation == IF pool.pool_type = "Loan" THEN get_pool_utilisation(pid) ELSE 100
        reward_calc_start_time ==
            IF pool.pool_type = "Loan" THEN transaction.time
            ELSE pool.deposit_limiters.end_time
    IN  IF pool.pool_type = "Staking" /\ now < pool.deposit_limiters.end_time
        THEN 0
        ELSE (amount * pool.apy * utilisation * (now - reward_calc_start_time))
                 \div (100 * 100 * 365 * ONE_DAY)

claimable_rewards_whole(reward, paid_out) == reward

claimable_rewards(reward, paid_out) ==
    IF reward > paid_out THEN reward - paid_out ELSE 0

transfer_rewards_overwrites(list, index, reward) ==
    [list EXCEPT ![index + 1].paid_out = claimable_rewards(reward, @)]

\* transfer_rewards: the position list after the settlement.  Its duration
\* argument is clamped into a local that nothing reads afterwards, so the
\* reward is the one calculate_interest returns.
transfer_rewards(list, index, reward) ==
    [list EXCEPT ![index + 1].paid_out = @ + claimable_rewards(reward, @)]

\* _delete_stake_if_empty: the position list after the cleanup
delete_stake_if_empty(list, index) ==
    IF list[index + 1].amount = 0
    THEN SubSeq([list EXCEPT ![index + 1] = list[Len(list)]], 1, Len(list) - 1)
    ELSE list

joined_users_always(unique_users, is_user) == unique_users + 1

\* unique_users after a deposit or a borrow by an account whose membership
\* flag is is_user
joined_users(unique_users, is_user) ==
    IF is_user = FALSE THEN unique_users + 1 ELSE unique_users

\* ------------------------------------------------------------ user methods
internal_deposit_and_stake_uncapped(pid, token_id, amount) ==
    /\ HasPool(pid)
    /\ ~PoolAt(pid).paused
    /\ PoolAt(pid).token_info.token = token_id
    /\ (PoolAt(pid).pool_type = "Staking" =>
            /\ now >= PoolAt(pid).deposit_limiters.start_time
            /\ now <= PoolAt(pid).deposit_limiters.end_time)
    /\ amount <= PoolAt(pid).deposit_limiters.limit_per_user

internal_deposit_and_stake_ok(pid, token_id, amount) ==
    /\ HasPool(pid)
    /\ ~PoolAt(pid).paused
    /\ PoolAt(pid).token_info.token = token_id
    /\ (PoolAt(pid).pool_type = "Staking" =>
            /\ now >= PoolAt(pid).deposit_limiters.start_time
            /\ now <= PoolAt(pid).deposit_limiters.end_time)
    /\ amount <= PoolAt(pid).deposit_limiters.limit_per_user
    /\ PoolAt(pid).funds.balance + amount <= PoolAt(pid).deposit_limiters.capacity

internal_deposit_and_stake(call, staker, pid, token_id, amount) ==
    IF internal_deposit_and_stake_ok(pid, token_id, amount)
    THEN LET transaction == Positions(pid, staker)
             user == UserInfo("Staking", amount, now, FreshId(transaction))
         IN  /\ user_info' = [user_info EXCEPT ![pid][staker] = Append(transaction, user)]
             /\ total_user_amount_staked' =
                    [total_user_amount_staked EXCEPT ![pid][staker] = @ + amount]
             /\ pool_info' =
                    [pool_info EXCEPT ![pid + 1].funds.balance = @ + amount,
                                      ![pid + 1].unique_users =
                                          joined_users(@, is_pool_user[pid][staker])]
             /\ is_pool_user' = [is_pool_user EXCEPT ![pid][staker] = TRUE]
             /\ last' = [call EXCEPT !.ok = TRUE, !.result = 1,
                                     !.calls = <<ExtCall("ft_mint", "claim", staker, amount)>>]
             /\ UNCHANGED <<is_whitelisted, total_user_amount_borrowed, now>>
             /\ Commit
    ELSE Abort(call)

emergency_withdraw_unchecked(account_id, pid, index, amount) ==
    /\ HasPool(pid)
    /\ HasPosition(pid, account_id, index)

\* emergency_withdraw has no assertion of its own: it panics on a missing
\* pool or position and on transaction[index].amount -= amount going below 0
emergency_withdraw_ok(account_id, pid, index, amount) ==
    /\ HasPool(pid)
    /\ HasPosition(pid, account_id, index)
    /\ amount <= PositionAt(pid, account_id, index).amount

emergency_path_settles(call, account_id, pid, index, amount) ==
    IF emergency_withdraw_ok(account_id, pid, index, amount)
    THEN /\ user_info' = [user_info EXCEPT ![pid][account_id][index + 1].amount = @ - amount,
                                           ![pid][account_id][index + 1].time = now]
         /\ last' = [call EXCEPT !.ok = TRUE, !.path = "emergency",
                                 !.calls = <<ExtCall("ft_transfer", "reward", account_id, 0),
                                             ExtCall("ft_burn", "claim", account_id, amount),
                                             ExtCall("ft_transfer", "principal", account_id, amount)>>]
         /\ UNCHANGED <<pool_info, is_pool_user, is_whitelisted,
                        total_user_amount_staked, total_user_amount_borrowed, now>>
         /\ Commit
    ELSE Abort(call)

emergency_path(call, account_id, pid, index, amount) ==
    IF emergency_withdraw_ok(account_id, pid, index, amount)
    THEN /\ user_info' = [user_info EXCEPT ![pid][account_id][index + 1].amount = @ - amount,
                                           ![pid][account_id][index + 1].time = now]
         /\ last' = [call EXCEPT !.ok = TRUE, !.path = "emergency",
                                 !.calls = <<ExtCall("ft_burn", "claim", account_id, amount),
                                             ExtCall("ft_transfer", "principal", account_id, amount)>>]
         /\ UNCHANGED <<pool_info, is_pool_user, is_whitelisted,
                        total_user_amount_staked, total_user_amount_borrowed, now>>
         /\ Commit
    ELSE Abort(call)

emergency_withdraw(account_id, pid, index, amount) ==
    LET call == Call("emergency_withdraw", FALSE, account_id, pid, index, amount)
    IN  emergency_path(call, account_id, pid, index, amount)

withdraw_ok(account_id, pid, index, amount) ==
    LET temp_pool == PoolAt(pid)
        temp_transaction == Positions(pid, account_id)
    IN  /\ temp_transaction[index + 1].transaction_type = "Staking"
        /\ amount <= temp_transaction[index + 1].amount
        /\ IF temp_pool.pool_type = "Staking"
           THEN now >= temp_pool.deposit_limiters.end_time + temp_pool.deposit_limiters.duration
           ELSE /\ temp_pool.funds.balance >= temp_pool.funds.loaned_balance + amount
                /\ calculate_percentage(temp_pool.funds.loaned_balance,
                                        temp_pool.funds.balance - amount)
                       < temp_pool.deposit_limiters.max_utilisation
        /\ total_user_amount_staked[pid][account_id] >= amount
        /\ temp_pool.funds.balance >= amount

withdraw_calls_principal_first(account_id, amount, claimable) ==
    <<ExtCall("ft_burn", "claim", account_id, amount),
      ExtCall("ft_transfer", "principal", account_id, amount),
      ExtCall("ft_transfer", "reward", account_id, claimable)>>

\* the requests of the normal path, in the order withdraw makes them:
\* transfer_rewards first, then the burn, then the principal
withdraw_calls(account_id, amount, claimable) ==
    <<ExtCall("ft_transfer", "reward", account_id, claimable),
      ExtCall("ft_burn", "claim", account_id, amount),
      ExtCall("ft_transfer", "principal", account_id, amount)>>

withdraw(account_id, pid, index, amount) ==
    LET call == Call("withdraw", FALSE, account_id, pid, index, amount)
    IN  IF ~HasPool(pid)
        THEN Abort(call)
        ELSE IF now < PoolAt(pid).deposit_limiters.end_time
        THEN emergency_path(call, account_id, pid, index, amount)
        ELSE IF ~(HasPosition(pid, account_id, index) /\ withdraw_ok(account_id, pid, index, amount))
        THEN Abort(call)
        ELSE LET reward == calculate_interest(account_id, pid, index, amount)
                 before == Positions(pid, account_id)
                 settled == transfer_rewards(before, index, reward)
                 moved == [settled EXCEPT ![index + 1].amount = @ - amount,
                                          ![index + 1].time = now]
                 transaction == delete_stake_if_empty(moved, index)
                 claimable == claimable_rewards(reward, before[index + 1].paid_out)
             IN  IF transaction = <<>> /\ PoolAt(pid).unique_users = 0
                 THEN Abort(call)
                 ELSE /\ user_info' = [user_info EXCEPT ![pid][account_id] = transaction]
                      /\ total_user_amount_staked' =
                             [total_user_amount_staked EXCEPT ![pid][account_id] = @ - amount]
                      /\ pool_info' =
                             [pool_info EXCEPT ![pid + 1].funds.balance = @ - amount,
                                               ![pid + 1].unique_users =
                                                   IF transaction = <<>> THEN @ - 1 ELSE @]
                      /\ is_pool_user' =
                             [is_pool_user EXCEPT ![pid][account_id] =
                                                   IF transaction = <<>> THEN FALSE ELSE @]
                      /\ last' = [call EXCEPT !.ok = TRUE, !.path = "normal",
                                              !.reward = reward, !.claimable = claimable,
                                              !.paid_out = settled[index + 1].paid_out,
                                              !.calls = withdraw_calls(account_id, amount, claimable)]
                      /\ UNCHANGED <<is_whitelisted, total_user_amount_borrowed, now>>
                      /\ Commit

\* borrow's first assertion, read from the whitelist map wl
may_borrow(wl, pid, account_id) ==
    /\ pid \in DOMAIN wl
    /\ account_id \in DOMAIN wl[pid]
    /\ wl[pid][account_id] = TRUE

\* borrow's assertions on the pool
borrow_checks(pid, amount) ==
    /\ HasPool(pid)
    /\ PoolAt(pid).pool_type = "Loan"
    /\ ~PoolAt(pid).paused
    /\ PoolAt(pid).funds.balance > 0
    /\ calculate_percentage(PoolAt(pid).funds.loaned_balance + amount, PoolAt(pid).funds.balance)
           < PoolAt(pid).deposit_limiters.max_utilisation

borrow_ok(account_id, pid, amount) ==
    /\ may_borrow(is_whitelisted, pid, account_id)
    /\ borrow_checks(pid, amount)

borrow(account_id, pid, amount) ==
    LET call == Call("borrow", borrow_ok(account_id, pid, amount), account_id, pid, 0, amount)
    IN  IF call.ok
        THEN LET loans == Positions(pid, account_id)
                 user == UserInfo("Borrow", amount, now, FreshId(loans))
             IN  /\ user_info' = [user_info EXCEPT ![pid][account_id] = Append(loans, user)]
                 /\ total_user_amount_borrowed' =
                        [total_user_amount_borrowed EXCEPT ![pid][account_id] = @ + amount]
                 /\ pool_info' =
                        [pool_info EXCEPT ![pid + 1].funds.loaned_balance = @ + amount,
                                          ![pid + 1].unique_users =
                                              joined_users(@, is_pool_user[pid][account_id])]
                 /\ is_pool_user' = [is_pool_user EXCEPT ![pid][account_id] = TRUE]
                 /\ last' = [call EXCEPT !.calls = <<ExtCall("ft_transfer", "principal", account_id, amount)>>]
                 /\ UNCHANGED <<is_whitelisted, total_user_amount_staked, now>>
                 /\ Commit
        ELSE Abort(call)

internal_repay_ok(borrower, pid, index, token_id, amount, repay_amount) ==
    /\ calculate_interest_ok(borrower, pid, index, repay_amount)
    /\ PoolAt(pid).token_info.token = token_id
    /\ PoolAt(pid).pool_type = "Loan"
    /\ PositionAt(pid, borrower, index).transaction_type = "Borrow"
    /\ repay_amount <= PositionAt(pid, borrower, index).amount
    /\ amount >= repay_amount + calculate_interest(borrower, pid, index, repay_amount)
    /\ total_user_amount_borrowed[pid][borrower] >= amount
    /\ PoolAt(pid).funds.loaned_balance >= amount

internal_repay(call, borrower, pid, index, token_id, amount, repay_amount) ==
    IF internal_repay_ok(borrower, pid, index, token_id, amount, repay_amount)
    THEN LET moved == [Positions(pid, borrower) EXCEPT ![index + 1].amount = @ - repay_amount,
                                                       ![index + 1].time = now]
             transaction == delete_stake_if_empty(moved, index)
         IN  IF transaction = <<>> /\ PoolAt(pid).unique_users = 0
             THEN Abort(call)
             ELSE /\ user_info' = [user_info EXCEPT ![pid][borrower] = transaction]
                  /\ total_user_amount_borrowed' =
                         [total_user_amount_borrowed EXCEPT ![pid][borrower] = @ - amount]
                  /\ pool_info' =
                         [pool_info EXCEPT ![pid + 1].funds.loaned_balance = @ - amount,
                                           ![pid + 1].unique_users =
                                               IF transaction = <<>> THEN @ - 1 ELSE @]
                  /\ is_pool_user' =
                         [is_pool_user EXCEPT ![pid][borrower] =
                                               IF transaction = <<>> THEN FALSE ELSE @]
                  /\ last' = [call EXCEPT !.ok = TRUE, !.result = 2,
                                          !.repay_amount = repay_amount]
                  /\ UNCHANGED <<is_whitelisted, total_user_amount_staked, now>>
                  /\ Commit
    ELSE Abort(call)

claim_quarterly_payout_ok(account_id, pid, index) ==
    /\ HasPool(pid)
    /\ Positions(pid, account_id) # <<>>
    /\ PoolAt(pid).quarterly_payout
    /\ PoolAt(pid).pool_type = "Staking"
    /\ now > PoolAt(pid).deposit_limiters.end_time
    /\ LET elapsed == now - PoolAt(pid).deposit_limiters.end_time
           time_diff == IF elapsed > PoolAt(pid).deposit_limiters.duration
                        THEN PoolAt(pid).deposit_limiters.duration ELSE elapsed
       IN  time_diff \div QUARTER_DAY > 0
    /\ HasPosition(pid, account_id, index)

claim_quarterly_payout(account_id, pid, index) ==
    LET call == Call("claim_quarterly_payout", claim_quarterly_payout_ok(account_id, pid, index),
                     account_id, pid, index, 0)
    IN  IF call.ok
        THEN LET before == Positions(pid, account_id)
                 amount == before[index + 1].amount
                 reward == calculate_interest(account_id, pid, index, amount)
                 claimable == claimable_rewards(reward, before[index + 1].paid_out)
                 transaction == transfer_rewards(before, index, reward)
             IN  /\ user_info' = [user_info EXCEPT ![pid][account_id] = transaction]
                 /\ last' = [call EXCEPT !.amount = amount, !.reward = reward,
                                         !.claimable = claimable,
                                         !.paid_out = transaction[index + 1].paid_out,
                                         !.calls = <<ExtCall("ft_transfer", "reward", account_id, claimable)>>]
                 /\ UNCHANGED <<pool_info, is_pool_user, is_whitelisted,
                                total_user_amount_staked, total_user_amount_borrowed, now>>
                 /\ Commit
        ELSE Abort(call)

\* ------------------------------------------------- inbound transfer router
\* msg is the message already split at ":" ; its numeric fields are numbers.
Messages ==
    {<<"staking", pid>> : pid \in Pids}
        \cup {<<"borrow", pid, index, repay_amount>> :
                  pid \in Pids, index \in {0}, repay_amount \in {250}}
        \cup {<<"swap", 0>>}
\* the same messages over the pools of the administration runs
WideMessages ==
    {<<"staking", pid>> : pid \in WidePids}
        \cup {<<"borrow", pid, index, repay_amount>> :
                  pid \in WidePids, index \in {0}, repay_amount \in {250}}
        \cup {<<"swap", 0>>}

ft_on_transfer_any_prefix(sender_id, token_id, amount, messages) ==
    LET pid == messages[2]
        call == [Call("ft_on_transfer", FALSE, sender_id, pid, 0, amount)
                    EXCEPT !.path = messages[1], !.token = token_id]
    IN  IF messages[1] = "borrow"
        THEN internal_repay([call EXCEPT !.index = messages[3]],
                            sender_id, pid, messages[3], token_id, amount, messages[4])
        ELSE internal_deposit_and_stake(call, sender_id, pid, token_id, amount)

ft_on_transfer(sender_id, token_id, amount, messages) ==
    LET pid == messages[2]
        call == [Call("ft_on_transfer", FALSE, sender_id, pid, 0, amount)
                    EXCEPT !.path = messages[1], !.token = token_id]
    IN  IF messages[1] = "staking"
        THEN internal_deposit_and_stake(call, sender_id, pid, token_id, amount)
        ELSE IF messages[1] = "borrow"
        THEN internal_repay([call EXCEPT !.index = messages[3]],
                            sender_id, pid, messages[3], token_id, amount, messages[4])
        ELSE Abort(call)

\* --------------------------------------------------------------- the clock
Tick(elapsed) ==
    /\ now' = now + elapsed
    /\ last' = Call("tick", TRUE, Owner, 0, 0, 0)
    /\ UNCHANGED state
    /\ Commit

Next ==
    \/ \E signer \in Accounts, input \in PoolInputs, pool_type \in PoolTypes :
           Len(pool_info) < MaxPools /\ create_pool(signer, input, pool_type)
    \/ \E signer \in Accounts, pid \in Pids, input \in PoolInputs :
           edit_pool(signer, pid, input)
    \/ \E signer \in Accounts, pid \in Pids, flag \in BOOLEAN :
           set_pool_paused(signer, pid, flag)
    \/ \E signer \in Accounts, pid \in Pids, user \in Accounts, status \in BOOLEAN :
           whitelist(signer, pid, user, status)
    \/ \E sender_id \in Accounts, token_id \in Tokens, amount \in Amounts, msg \in Messages :
           ft_on_transfer(sender_id, token_id, amount, msg)
    \/ \E account_id \in Accounts, pid \in Pids, index \in Indexes, amount \in Amounts :
           emergency_withdraw(account_id, pid, index, amount)
    \/ \E account_id \in Accounts, pid \in Pids, index \in Indexes, amount \in Amounts :
           withdraw(account_id, pid, index, amount)
    \/ \E account_id \in Accounts, pid \in Pids, amount \in Amounts :
           borrow(account_id, pid, amount)
    \/ \E account_id \in Accounts, pid \in Pids, index \in Indexes :
           claim_quarterly_payout(account_id, pid, index)
    \/ \E elapsed \in TickSteps :
           Tick(elapsed)

Spec == Init /\ [][Next]_vars

\* The administration runs: every pool description, the odd ones included,
\* on up to MaxWidePools pools, against one staker who moves one amount or
\* tries one that is above every limit_per_user and within every capacity.
Stakers == {"alice"}
Stakes == {250, 750}

NextWide ==
    \/ \E signer \in Accounts, input \in WideInputs, pool_type \in PoolTypes :
           Len(pool_info) < MaxWidePools /\ create_pool(signer, input, pool_type)
    \/ \E signer \in Accounts, pid \in WidePids, input \in WideInputs :
           edit_pool(signer, pid, input)
    \/ \E pid \in WidePids, flag \in BOOLEAN :
           set_pool_paused(Owner, pid, flag)
    \/ \E pid \in WidePids, user \in Stakers, status \in BOOLEAN :
           whitelist(Owner, pid, user, status)
    \/ \E sender_id \in Stakers, token_id \in Tokens, amount \in Stakes, msg \in WideMessages :
           ft_on_transfer(sender_id, token_id, amount, msg)
    \/ \E account_id \in Stakers, pid \in WidePids, amount \in Stakes :
           emergency_withdraw(account_id, pid, 0, amount)
    \/ \E account_id \in Stakers, pid \in WidePids, amount \in Stakes :
           withdraw(account_id, pid, 0, amount)
    \/ \E account_id \in Stakers, pid \in WidePids, amount \in Stakes :
           borrow(account_id, pid, amount)
    \/ \E account_id \in Stakers, pid \in WidePids :
           claim_quarterly_payout(account_id, pid, 0)
    \/ \E signer \in Accounts, token \in Tokens, amount \in Stakes :
           recover_token(signer, token, amount)
    \/ Tick(QUARTER_DAY)

SpecWide == Init /\ [][NextWide]_vars

\* ---------------------------------------------------------------- the views
\* The two computing views are functions of the contract state and their
\* arguments.  They are run on drawn states: one pool whose funds are drawn,
\* one account with one position whose kind, amount and time are drawn, at a
\* drawn timestamp not before the position's time.
ViewBalances == {0, 250, 500}
ViewLoans == {0, 250, 500, 750}
ViewTimes == {0, QUARTER_DAY, 2 * QUARTER_DAY, 3 * QUARTER_DAY}
Kinds == {"Staking", "Borrow"}

InitView ==
    /\ \E input \in PoolInputs, balance \in ViewBalances, loaned \in ViewLoans :
           pool_info = <<[input EXCEPT !.funds.balance = balance,
                                       !.funds.loaned_balance = loaned,
                                       !.unique_users = 1]>>
    /\ \E kind \in Kinds, amount \in Amounts, time \in ViewTimes :
           /\ user_info = [p \in Pids |-> [a \in Accounts |->
                              IF p = 0 /\ a \in Stakers
                              THEN <<UserInfo(kind, amount, time, 0)>> ELSE <<>>]]
           /\ now \in {t \in ViewTimes : t >= time}
    /\ is_pool_user = [p \in Pids |-> [a \in Accounts |-> p = 0 /\ a \in Stakers]]
    /\ is_whitelisted = [p \in {} |-> [a \in {} |-> FALSE]]
    /\ total_user_amount_staked = [p \in Pids |-> [a \in Accounts |-> 0]]
    /\ total_user_amount_borrowed = [p \in Pids |-> [a \in Accounts |-> 0]]
    /\ last = Call("new", TRUE, Owner, 0, 0, 0)
    /\ steps = 0

\* the view calculate_interest, called by anyone for any account
calculate_interest_view(user, pid, index, amount) ==
    LET call == Call("calculate_interest", calculate_interest_ok(user, pid, index, amount),
                     user, pid, index, amount)
    IN  IF call.ok
        THEN /\ last' = [call EXCEPT !.result = calculate_interest(user, pid, index, amount)]
             /\ UNCHANGED <<state, now, steps>>
        ELSE Abort(call)

\* the view get_pool_utilisation
get_pool_utilisation_view(pid) ==
    LET call == Call("get_pool_utilisation", HasPool(pid), Owner, pid, 0, 0)
    IN  IF call.ok
        THEN /\ last' = [call EXCEPT !.result = get_pool_utilisation(pid)]
             /\ UNCHANGED <<state, now, steps>>
        ELSE Abort(call)

NextView ==
    \/ \E user \in Accounts, pid \in Pids, index \in Indexes, amount \in Amounts :
           calculate_interest_view(user, pid, index, amount)
    \/ \E pid \in Pids :
           get_pool_utilisation_view(pid)

SpecView == InitView /\ [][NextView]_vars

\* ================================================================== claims
PoolIds == {pid \in AllPids : HasPool(pid)}
Holders(pid) == {a \in Accounts : Positions(pid, a) # <<>>}
Members(pid) == {a \in Accounts : is_pool_user[pid][a]}
Settled == last.ok /\ (last.op = "claim_quarterly_payout"
                          \/ (last.op = "withdraw" /\ last.path = "normal"))

\* C1: in every reachable state every pool has loaned_balance <= balance.
C1_LoanedWithinBalance ==
    \A pid \in PoolIds : PoolAt(pid).funds.loaned_balance <= PoolAt(pid).funds.balance

\* a withdrawal on the normal path has just taken liquidity out of a Loan
\* pool that still holds a balance
C1_Witness ==
    /\ last.ok /\ last.op = "withdraw" /\ last.path = "normal"
    /\ PoolAt(last.pid).pool_type = "Loan"
    /\ PoolAt(last.pid).funds.balance > 0

\* C2: in every reachable state unique_users of a pool is the number of
\* accounts with a non-empty position list there, which is also the number of
\* accounts whose is_pool_user flag is set.
C2_UniqueUsers ==
    \A pid \in PoolIds :
        /\ PoolAt(pid).unique_users = Cardinality(Holders(pid))
        /\ PoolAt(pid).unique_users = Cardinality(Members(pid))

\* a withdrawal has just emptied one account's list while another account
\* still holds a position in the pool
C2_Witness ==
    /\ last.ok /\ last.op = "withdraw" /\ last.path = "normal"
    /\ Positions(last.pid, last.signer) = <<>>
    /\ PoolAt(last.pid).unique_users = 1

\* C3: on an unpaused Loan pool with a balance the owner can whitelist any
\* account, and with the flag that call sets every borrow of that account
\* whose projected utilisation is below max_utilisation is accepted.
C3_WhitelistedCanBorrow ==
    \A pid \in PoolIds, account \in Accounts, amount \in Amounts :
        (/\ PoolAt(pid).pool_type = "Loan"
         /\ ~PoolAt(pid).paused
         /\ PoolAt(pid).funds.balance > 0
         /\ calculate_percentage(PoolAt(pid).funds.loaned_balance + amount,
                                 PoolAt(pid).funds.balance)
                < PoolAt(pid).deposit_limiters.max_utilisation)
        => /\ whitelist_ok(Owner, pid, account)
           /\ may_borrow([is_whitelisted EXCEPT ![pid][account] = TRUE], pid, account)
           /\ borrow_checks(pid, amount)

\* C4: while end_time <= now < end_time + duration on a Staking pool, no
\* withdraw or emergency_withdraw reduces a position's amount or asks for a
\* transfer of principal.
C4_LockedUntilDuration ==
    [][(/\ last'.ok
        /\ last'.op \in {"withdraw", "emergency_withdraw"}
        /\ PoolAt(last'.pid).pool_type = "Staking"
        /\ PoolAt(last'.pid).deposit_limiters.end_time <= now
        /\ now < PoolAt(last'.pid).deposit_limiters.end_time
                     + PoolAt(last'.pid).deposit_limiters.duration)
       => /\ \A k \in 1 .. Len(last'.calls) : last'.calls[k].what # "principal"
          /\ \A i \in 1 .. Len(Positions(last'.pid, last'.signer)) :
                 \A j \in 1 .. Len(user_info'[last'.pid][last'.signer]) :
                     user_info'[last'.pid][last'.signer][j].id
                         = Positions(last'.pid, last'.signer)[i].id
                     => user_info'[last'.pid][last'.signer][j].amount
                            >= Positions(last'.pid, last'.signer)[i].amount]_vars

\* C5: the reward a settlement on a Staking pool computes and pays never
\* exceeds what the settled amount accrues over one full duration.
C5_RewardCapped ==
    (Settled /\ PoolAt(last.pid).pool_type = "Staking")
    => LET pool == PoolAt(last.pid)
           cap == (last.amount * pool.apy * 100 * pool.deposit_limiters.duration)
                      \div (100 * 100 * 365 * ONE_DAY)
       IN  last.reward <= cap /\ last.claimable <= cap

\* C6: after every settlement the position's paid_out is at most the
\* interest that settlement computed.
C6_PaidOutWithinInterest ==
    Settled => last.paid_out <= last.reward

\* C7: a step never lowers the paid_out of a position that stays in its list.
C7_PaidOutMonotonic ==
    [][\A pid \in Pids, a \in Accounts :
          \A i \in 1 .. Len(user_info[pid][a]), j \in 1 .. Len(user_info'[pid][a]) :
              user_info'[pid][a][j].id = user_info[pid][a][i].id
              => user_info'[pid][a][j].paid_out >= user_info[pid][a][i].paid_out]_vars

\* a partial withdrawal has settled a reward on a position that stays
C7_Witness ==
    /\ last.ok /\ last.op = "withdraw" /\ last.path = "normal"
    /\ last.claimable > 0
    /\ \E i \in 1 .. Len(Positions(last.pid, last.signer)) :
           /\ Positions(last.pid, last.signer)[i].paid_out = last.paid_out
           /\ Positions(last.pid, last.signer)[i].amount > 0

\* C8: a claim_quarterly_payout right after a claim_quarterly_payout of the
\* same position at the same timestamp asks for a reward transfer of 0 and
\* leaves the position list as it is.
C8_NoDoublePay ==
    [][(/\ last.ok /\ last.op = "claim_quarterly_payout"
        /\ last'.ok /\ last'.op = "claim_quarterly_payout"
        /\ last'.signer = last.signer /\ last'.pid = last.pid /\ last'.index = last.index
        /\ now' = now)
       => /\ last'.claimable = 0
          /\ last'.calls = <<ExtCall("ft_transfer", "reward", last'.signer, 0)>>
          /\ user_info' = user_info]_vars

\* a claim has paid nothing on a position already paid a reward
C8_Witness ==
    /\ last.ok /\ last.op = "claim_quarterly_payout"
    /\ last.reward > 0 /\ last.claimable = 0
    /\ last.paid_out = last.reward

\* the position a committed call addressed, as it was before the call
Addressed == Positions(last'.pid, last'.signer)[last'.index + 1]
Principal == IF last'.op = "withdraw" THEN last'.amount ELSE last'.repay_amount

\* C9: a committed withdraw or repay of the whole remaining principal
\* shortens the list by one; of less, keeps the length and lowers the
\* position's amount by exactly the principal.
C9_CleanupOnExactAmount ==
    [][(last'.ok /\ (last'.op = "withdraw"
                        \/ (last'.op = "ft_on_transfer" /\ last'.path = "borrow")))
       => IF Principal = Addressed.amount
          THEN Len(user_info'[last'.pid][last'.signer])
                   = Len(Positions(last'.pid, last'.signer)) - 1
          ELSE /\ Len(user_info'[last'.pid][last'.signer])
                      = Len(Positions(last'.pid, last'.signer))
               /\ user_info'[last'.pid][last'.signer][last'.index + 1].amount
                      = Addressed.amount - Principal]_vars

\* C10: no position list holds a position whose amount is 0.
C10_NoEmptyPosition ==
    \A pid \in Pids, a \in Accounts :
        \A i \in 1 .. Len(Positions(pid, a)) : Positions(pid, a)[i].amount # 0

\* the balance-changing calls
Moves == {"ft_on_transfer", "withdraw", "emergency_withdraw", "borrow"}

\* C11: no deposit, withdraw, emergency_withdraw, borrow or repay commits on
\* a pool whose paused flag is set.
C11_PausedPoolFrozen ==
    [][~(/\ last'.ok
         /\ last'.op \in Moves
         /\ PoolAt(last'.pid).paused)]_vars

\* C12: right after a committed deposit the pool is not paused, the token
\* that came in is the pool's token, the amount is within limit_per_user, the
\* balance (which includes the amount) is within capacity, and on a Staking
\* pool start_time <= now <= end_time.
C12_DepositWithinPolicy ==
    (last.ok /\ last.op = "ft_on_transfer" /\ last.path = "staking")
    => LET pool == PoolAt(last.pid)
       IN  /\ ~pool.paused
           /\ pool.token_info.token = last.token
           /\ last.amount <= pool.deposit_limiters.limit_per_user
           /\ pool.funds.balance >= last.amount
           /\ pool.funds.balance <= pool.deposit_limiters.capacity
           /\ (pool.pool_type = "Staking" =>
                   /\ pool.deposit_limiters.start_time <= now
                   /\ now <= pool.deposit_limiters.end_time)

\* a deposit has filled a Staking pool to its capacity at the last moment of
\* its window
C12_Witness ==
    /\ last.ok /\ last.op = "ft_on_transfer" /\ last.path = "staking"
    /\ PoolAt(last.pid).pool_type = "Staking"
    /\ PoolAt(last.pid).funds.balance = PoolAt(last.pid).deposit_limiters.capacity
    /\ now = PoolAt(last.pid).deposit_limiters.end_time

\* C13: a withdraw or emergency_withdraw commits on a Loan pool only if, before
\* the call, balance >= loaned_balance + amount and the utilisation projected
\* on balance - amount is below max_utilisation.
C13_LoanedLiquidityStays ==
    [][(/\ last'.ok
        /\ last'.op \in {"withdraw", "emergency_withdraw"}
        /\ PoolAt(last'.pid).pool_type = "Loan")
       => LET pool == PoolAt(last'.pid)
          IN  /\ pool.funds.balance >= pool.funds.loaned_balance + last'.amount
              /\ calculate_percentage(pool.funds.loaned_balance,
                                      pool.funds.balance - last'.amount)
                     < pool.deposit_limiters.max_utilisation]_vars

\* C14: a withdraw that commits while now < end_time asks for no reward
\* transfer, for one burn of amount claim tokens and one transfer of amount
\* principal to the caller, lowers the position's amount by exactly amount and
\* leaves its paid_out and the list's length as they are.
C14_EarlyWithdrawIsEmergency ==
    [][(/\ last'.ok
        /\ last'.op = "withdraw"
        /\ now < PoolAt(last'.pid).deposit_limiters.end_time)
       => LET before == Positions(last'.pid, last'.signer)
              after == user_info'[last'.pid][last'.signer]
              k == last'.index + 1
          IN  /\ last'.calls = <<ExtCall("ft_burn", "claim", last'.signer, last'.amount),
                                 ExtCall("ft_transfer", "principal", last'.signer, last'.amount)>>
              /\ Len(after) = Len(before)
              /\ after[k].amount = before[k].amount - last'.amount
              /\ after[k].paid_out = before[k].paid_out
              /\ \A i \in 1 .. Len(before) : i # k => after[i] = before[i]]_vars

\* a withdraw before end_time has taken part of a position
C14_Witness ==
    /\ last.ok /\ last.op = "withdraw" /\ last.path = "emergency"
    /\ now < PoolAt(last.pid).deposit_limiters.end_time
    /\ PositionAt(last.pid, last.signer, last.index).amount > 0

\* C16: on every Loan pool the owner's whitelist call for any account passes
\* all of whitelist's checks, whether or not the account has a flag yet.
C16_OwnerCanWhitelist ==
    \A pid \in PoolIds, user \in Accounts :
        PoolAt(pid).pool_type = "Loan" => whitelist_ok(Owner, pid, user)

\* C18: an inbound transfer that commits was routed by its first field:
\* "staking" ran the deposit (one mint of the amount, a position more) and
\* returned 1, "borrow" ran the repay and returned 2; no transfer with another
\* first field commits and no other code is returned.
C18_RouterDispatch ==
    (last.ok /\ last.op = "ft_on_transfer")
    => \/ /\ last.path = "staking"
          /\ last.result = 1
          /\ last.calls = <<ExtCall("ft_mint", "claim", last.signer, last.amount)>>
          /\ Positions(last.pid, last.signer) # <<>>
       \/ /\ last.path = "borrow"
          /\ last.result = 2
          /\ last.calls = <<>>

\* a "staking" transfer has been routed to the deposit and returned 1
C18_Witness ==
    /\ last.ok /\ last.op = "ft_on_transfer"
    /\ last.path = "staking" /\ last.result = 1
    /\ PoolAt(last.pid).funds.balance >= last.amount

\* C19: the pool a committed create_pool has just added is not a Staking pool
\* with start_time >= end_time, and its balance, loaned_balance and
\* unique_users are 0.
C19_CreatedPoolWellFormed ==
    (last.ok /\ last.op = "create_pool")
    => LET pool == PoolAt(last.pid)
       IN  /\ (pool.pool_type = "Staking" =>
                   pool.deposit_limiters.start_time < pool.deposit_limiters.end_time)
           /\ pool.funds.balance = 0
           /\ pool.funds.loaned_balance = 0
           /\ pool.unique_users = 0

\* C20: a committed edit_pool leaves the edited pool's balance,
\* loaned_balance, unique_users and token as they were, and every other pool,
\* every position list, aggregate and flag unchanged.
C20_EditPoolFrame ==
    [][(last'.ok /\ last'.op = "edit_pool")
       => LET k == last'.pid + 1
          IN  /\ Len(pool_info') = Len(pool_info)
              /\ pool_info'[k].funds = pool_info[k].funds
              /\ pool_info'[k].unique_users = pool_info[k].unique_users
              /\ pool_info'[k].token_info.token = pool_info[k].token_info.token
              /\ \A i \in 1 .. Len(pool_info) : i # k => pool_info'[i] = pool_info[i]
              /\ UNCHANGED <<is_pool_user, is_whitelisted, user_info,
                             total_user_amount_staked, total_user_amount_borrowed>>]_vars

\* edit_pool has just put a description that names another token and other
\* counters on a pool that holds a balance and a member, next to another
\* pool of another description that holds a balance and a member too
C20_Witness ==
    /\ last.ok /\ last.op = "edit_pool"
    /\ PoolAt(last.pid).deposit_limiters.start_time = ClosedInput.deposit_limiters.start_time
    /\ PoolAt(last.pid).token_info.token # ClosedInput.token_info.token
    /\ PoolAt(last.pid).funds.balance > 0
    /\ PoolAt(last.pid).unique_users = 1
    /\ \E other \in PoolIds \ {last.pid} :
           /\ PoolAt(other).deposit_limiters # PoolAt(last.pid).deposit_limiters
           /\ PoolAt(other).funds.balance > 0
           /\ PoolAt(other).unique_users = 1

\* C21: calculate_interest rejects an amount above the position's amount;
\* the value it returns is 0 on a Staking pool while now < end_time and
\* otherwise the truncated quotient of amount * apy * utilisation * (now -
\* anchor) by 100 * 100 * 365 * ONE_DAY, with utilisation 100 and anchor
\* end_time on a Staking pool, the pool's utilisation and the position's time
\* on a Loan pool.
C21_InterestFormula ==
    /\ \A user \in Accounts, pid \in PoolIds, index \in Indexes, amount \in Amounts :
           (HasPosition(pid, user, index) /\ amount > PositionAt(pid, user, index).amount)
           => ~calculate_interest_ok(user, pid, index, amount)
    /\ (last.ok /\ last.op = "calculate_interest")
       => LET pool == PoolAt(last.pid)
              position == PositionAt(last.pid, last.signer, last.index)
              ratio == IF pool.funds.balance = 0 THEN 0
                       ELSE (pool.funds.loaned_balance * 100) \div pool.funds.balance
              utilisation == IF pool.pool_type = "Staking" THEN 100
                             ELSE IF ratio > 100 THEN 100 ELSE ratio
              anchor == IF pool.pool_type = "Staking"
                        THEN pool.deposit_limiters.end_time ELSE position.time
              product == last.amount * pool.apy * utilisation * (now - anchor)
              year == 100 * 100 * 365 * ONE_DAY
          IN  /\ last.amount <= position.amount
              /\ IF pool.pool_type = "Staking" /\ now < pool.deposit_limiters.end_time
                 THEN last.result = 0
                 ELSE /\ last.result * year <= product
                      /\ product < (last.result + 1) * year

\* the view has returned interest on a Loan pool that is partly lent out and
\* on a Staking pool whose window closed after the deposit
C21_Witness ==
    /\ last.ok /\ last.op = "calculate_interest" /\ last.result > 0
    /\ \/ /\ PoolAt(last.pid).pool_type = "Loan"
          /\ get_pool_utilisation(last.pid) < 100
       \/ /\ PoolAt(last.pid).pool_type = "Staking"
          /\ PositionAt(last.pid, last.signer, last.index).time
                 < PoolAt(last.pid).deposit_limiters.end_time

\* C22: get_pool_utilisation of every pool is in 0 .. 100, is 0 when the
\* balance is 0 and is 100 when loaned_balance exceeds a positive balance.
C22_UtilisationInRange ==
    /\ \A pid \in PoolIds :
           /\ get_pool_utilisation(pid) \in 0 .. 100
           /\ PoolAt(pid).funds.balance = 0 => get_pool_utilisation(pid) = 0
           /\ (PoolAt(pid).funds.balance > 0
                  /\ PoolAt(pid).funds.loaned_balance > PoolAt(pid).funds.balance)
              => get_pool_utilisation(pid) = 100
    /\ (last.ok /\ last.op = "get_pool_utilisation") => last.result \in 0 .. 100

\* the view has returned 100 for a pool that has lent more than its balance
C22_Witness ==
    /\ last.ok /\ last.op = "get_pool_utilisation" /\ last.result = 100
    /\ PoolAt(last.pid).funds.balance > 0
    /\ PoolAt(last.pid).funds.loaned_balance > PoolAt(last.pid).funds.balance

\* C23: a withdraw that commits on the normal path computes the reward with
\* calculate_interest on the position as it was before the call, adds the
\* part not yet paid to paid_out, and requests the reward transfer first, the
\* burn second and the principal transfer third.
C23_RewardBeforePrincipal ==
    [][(last'.ok /\ last'.op = "withdraw" /\ last'.path = "normal")
       => LET reward == calculate_interest(last'.signer, last'.pid, last'.index, last'.amount)
              claimable == IF reward > Addressed.paid_out
                           THEN reward - Addressed.paid_out ELSE 0
          IN  /\ last'.amount <= Addressed.amount
              /\ last'.reward = reward
              /\ last'.claimable = claimable
              /\ last'.paid_out = Addressed.paid_out + claimable
              /\ Len(last'.calls) = 3
              /\ last'.calls[1] = ExtCall("ft_transfer", "reward", last'.signer, claimable)
              /\ last'.calls[2] = ExtCall("ft_burn", "claim", last'.signer, last'.amount)
              /\ last'.calls[3] = ExtCall("ft_transfer", "principal", last'.signer, last'.amount)]_vars

\* a withdraw of a whole position has paid a reward computed on the amount
\* the position held before it was emptied and removed
C23_Witness ==
    /\ last.ok /\ last.op = "withdraw" /\ last.path = "normal"
    /\ last.claimable > 0
    /\ last.paid_out = last.claimable
    /\ Positions(last.pid, last.signer) = <<>>

\* the remaining principal of the Staking positions of a list, of an
\* account's list in a pool, and of the accounts of a set in a pool
RECURSIVE SumStaked(_)
SumStaked(list) ==
    IF list = <<>> THEN 0
    ELSE (IF Head(list).transaction_type = "Staking" THEN Head(list).amount ELSE 0)
             + SumStaked(Tail(list))
Staked(pid, a) == SumStaked(Positions(pid, a))
RECURSIVE StakedBy(_, _)
StakedBy(pid, accounts) ==
    IF accounts = {} THEN 0
    ELSE LET a == CHOOSE x \in accounts : TRUE
         IN  Staked(pid, a) + StakedBy(pid, accounts \ {a})

\* C24: every pool's balance is the sum of the amounts of the Staking
\* positions of all accounts in it.
C24_BalanceIsStaked ==
    \A pid \in PoolIds : PoolAt(pid).funds.balance = StakedBy(pid, Accounts)

\* what a step deposited for an account into a pool, and the principal it
\* asked to be transferred out to the account from the pool
RECURSIVE SumPrincipal(_)
SumPrincipal(calls) ==
    IF calls = <<>> THEN 0
    ELSE (IF Head(calls).what = "principal" THEN Head(calls).amount ELSE 0)
             + SumPrincipal(Tail(calls))
PaidIn(pid, a) ==
    IF last'.ok /\ last'.op = "ft_on_transfer" /\ last'.path = "staking"
          /\ last'.pid = pid /\ last'.signer = a
    THEN last'.amount ELSE 0
PaidOut(pid, a) ==
    IF last'.ok /\ last'.op \in {"withdraw", "emergency_withdraw"}
          /\ last'.pid = pid /\ last'.signer = a
    THEN SumPrincipal(last'.calls) ELSE 0

\* C26: a committed withdraw or emergency_withdraw addresses a Staking
\* position, takes at most its amount and leaves the other accounts' lists
\* alone; in every step the principal an account still holds in a pool grows
\* by what the step deposited for it and shrinks by what the step transferred
\* out to it, and it is never negative.  Hence what went out to an account
\* never exceeds what the account deposited.
C26_PrincipalConserved ==
    [][/\ (last'.ok /\ last'.op \in {"withdraw", "emergency_withdraw"})
          => /\ Addressed.transaction_type = "Staking"
             /\ last'.amount <= Addressed.amount
             /\ SumPrincipal(last'.calls) = last'.amount
             /\ \A pid \in Pids, b \in Accounts \ {last'.signer} :
                    user_info'[pid][b] = user_info[pid][b]
       /\ \A pid \in Pids, a \in Accounts :
              (user_info'[pid][a] # user_info[pid][a] \/ PaidIn(pid, a) # 0 \/ PaidOut(pid, a) # 0)
              => /\ SumStaked(user_info'[pid][a])
                        = Staked(pid, a) + PaidIn(pid, a) - PaidOut(pid, a)
                 /\ \A i \in 1 .. Len(user_info'[pid][a]) :
                        user_info'[pid][a][i].amount >= 0]_vars

\* an emergency_withdraw has taken the whole of a position while another
\* account holds a position in the same pool
C26_Witness ==
    /\ last.ok /\ last.op = "emergency_withdraw"
    /\ last.amount > 0
    /\ PositionAt(last.pid, last.signer, last.index).amount = 0
    /\ \E b \in Accounts \ {last.signer} : Staked(last.pid, b) > 0

====
